---- MODULE Spec2Model ----
(***************************************************************************)
(* A model of the go-lucene query compiler: the recursive parser of        *)
(* parse.go (token buffer, must/must-not flags, paren counter, expression  *)
(* tree built by insert), its validator, and the ClickHouse render         *)
(* functions (equals, rang, the driver's function table).                  *)
(*                                                                         *)
(* Texts are sequences of one-character strings, so that the conversions   *)
(* of the code (strconv.Atoi, ParseInt, ParseBool, ParseFloat, Split,      *)
(* Trim, Sprintf) are computed on the characters.                          *)
(***************************************************************************)
EXTENDS Integers, Sequences, FiniteSets, TLC

VARIABLES
    lang,                \* the query language the input of this run is drawn from
    lexed,               \* lexer: number of non-end tokens handed out
    lexEnded,            \* lexer: the end token has been produced
    tokens,              \* parser.tokens
    tokIdx,              \* parser.tokIdx
    hasMust,             \* parser.hasMust
    hasMustNot,          \* parser.hasMustNot
    subExpressionCount,  \* parser.subExpressionCount
    stack,               \* the active calls of parser.parse, innermost last
    ret,                 \* the (e, err) a call of parser.parse has just returned
    pc,                  \* "loop" | "ret" | "done"
    result,              \* the (e, err) returned by Parse
    minCount,            \* history: the lowest value subExpressionCount has had
    rin,                 \* a function run on its own: the input (fn, left, right, tree)
    rout                 \* a function run on its own: what it returned; the log of cursor calls

vars == <<lang, lexed, lexEnded, tokens, tokIdx, hasMust, hasMustNot,
          subExpressionCount, stack, ret, pc, result, minCount, rin, rout>>

parserVars == <<lang, lexed, lexEnded, tokens, tokIdx, hasMust, hasMustNot,
                subExpressionCount, stack, ret, pc, result, minCount>>

renderVars == <<rin, rout>>

-----------------------------------------------------------------------------
(* Characters and the strconv conversions                                  *)

Digits == {"0", "1", "2", "3", "4", "5", "6", "7", "8", "9"}

DigitVal(c) ==
    CASE c = "0" -> 0 [] c = "1" -> 1 [] c = "2" -> 2 [] c = "3" -> 3
      [] c = "4" -> 4 [] c = "5" -> 5 [] c = "6" -> 6 [] c = "7" -> 7
      [] c = "8" -> 8 [] c = "9" -> 9
      [] c \in {"a", "A"} -> 10 [] c \in {"b", "B"} -> 11
      [] c \in {"c", "C"} -> 12 [] c \in {"d", "D"} -> 13
      [] c \in {"e", "E"} -> 14 [] c \in {"f", "F"} -> 15
      [] OTHER -> 99

RECURSIVE Str(_)
\* the Go string made of the characters of s
Str(s) == IF s = <<>> THEN "" ELSE Head(s) \o Str(Tail(s))

RECURSIVE NatOf(_, _)
\* the value of the digit sequence s in the given base
NatOf(s, base) ==
    IF s = <<>> THEN 0 ELSE NatOf(SubSeq(s, 1, Len(s) - 1), base) * base + DigitVal(s[Len(s)])

AllDigits(s, base) == s # <<>> /\ \A i \in 1..Len(s) : DigitVal(s[i]) < base

HasSign(s) == s # <<>> /\ s[1] \in {"+", "-"}

Unsigned(s) == IF HasSign(s) THEN Tail(s) ELSE s

Signed(s, n) == IF HasSign(s) /\ s[1] = "-" THEN 0 - n ELSE n

\* the decimal digits of 2^63 - 1 and of 2^63, the largest magnitudes of an int
MaxInt64 == <<"9", "2", "2", "3", "3", "7", "2", "0", "3", "6", "8", "5", "4", "7", "7", "5", "8", "0", "7">>

MinInt64 == <<"9", "2", "2", "3", "3", "7", "2", "0", "3", "6", "8", "5", "4", "7", "7", "5", "8", "0", "8">>

RECURSIVE StripZeros(_)
StripZeros(s) == IF Len(s) > 1 /\ s[1] = "0" THEN StripZeros(Tail(s)) ELSE s

\* a <= b for digit sequences without leading zeros
DigitsLeq(a, b) ==
    \/ Len(a) < Len(b)
    \/ /\ Len(a) = Len(b)
       /\ \/ a = b
          \/ \E i \in 1..Len(a) :
                /\ \A j \in 1..(i - 1) : a[j] = b[j]
                /\ DigitVal(a[i]) < DigitVal(b[i])

\* the value is in the range of an int (64 bits)
FitsInt64(s) ==
    DigitsLeq(StripZeros(Unsigned(s)), IF HasSign(s) /\ s[1] = "-" THEN MinInt64 ELSE MaxInt64)

\* strconv.Atoi: an optional sign, then decimal digits, the value in range
AtoiOk(s) == AllDigits(Unsigned(s), 10) /\ FitsInt64(s)

Atoi(s) == Signed(s, NatOf(Unsigned(s), 10))

\* strconv.ParseInt(s, 0, 64): the base is taken from the prefix (0b, 0o, 0x,
\* a leading 0 for octal), decimal otherwise
BasePrefix(u) ==
    IF Len(u) >= 2 /\ u[1] = "0"
    THEN CASE u[2] \in {"x", "X"} -> 16
           [] u[2] \in {"b", "B"} -> 2
           [] u[2] \in {"o", "O"} -> 8
           [] OTHER -> 0
    ELSE 10

ParseIntOk(s) ==
    LET u == Unsigned(s)
        b == BasePrefix(u)
    IN  CASE b = 10 -> AllDigits(u, 10)
          [] b = 0  -> AllDigits(Tail(u), 8)
          [] OTHER  -> AllDigits(SubSeq(u, 3, Len(u)), b)

\* strconv.ParseBool
ParseBoolOk(s) ==
    Str(s) \in {"1", "t", "T", "TRUE", "true", "True",
                "0", "f", "F", "FALSE", "false", "False"}

\* strconv.ParseFloat(s, 64) on the decimal forms  [sign] digits [. digits]  and
\* [sign] . digits ; the value is kept exactly, as a number of hundredths
DotAt(u) == IF \E i \in 1..Len(u) : u[i] = "." THEN CHOOSE i \in 1..Len(u) : u[i] = "." /\ \A j \in 1..(i - 1) : u[j] # "." ELSE 0

IntPart(u) == IF DotAt(u) = 0 THEN u ELSE SubSeq(u, 1, DotAt(u) - 1)

FracPart(u) == IF DotAt(u) = 0 THEN <<>> ELSE SubSeq(u, DotAt(u) + 1, Len(u))

ParseFloatOk(s) ==
    LET u == Unsigned(s)
    IN  /\ IntPart(u) # <<>> \/ FracPart(u) # <<>>
        /\ \A i \in 1..Len(IntPart(u)) : DigitVal(IntPart(u)[i]) < 10
        /\ \A i \in 1..Len(FracPart(u)) : DigitVal(FracPart(u)[i]) < 10

\* the float's value in hundredths (exact for at most two fraction digits)
Hundredths(s) ==
    LET u == Unsigned(s)
        f == FracPart(u)
        f2 == IF Len(f) = 0 THEN <<"0", "0">> ELSE IF Len(f) = 1 THEN f \o <<"0">> ELSE SubSeq(f, 1, 2)
    IN  Signed(s, NatOf(IntPart(u), 10) * 100 + NatOf(f2, 10))

RECURSIVE NatText(_)
NatText(n) ==
    LET d == <<"0", "1", "2", "3", "4", "5", "6", "7", "8", "9">>
    IN  IF n < 10 THEN d[n + 1] ELSE NatText(n \div 10) \o d[(n % 10) + 1]

\* fmt's %d
FmtD(n) == IF n < 0 THEN "-" \o NatText(0 - n) ELSE NatText(n)

\* fmt's %.2f of a float given by its sign bit and its magnitude in hundredths
FmtF2(neg, a) ==
    (IF neg THEN "-" ELSE "") \o NatText(a \div 100) \o "."
        \o (IF a % 100 < 10 THEN "0" ELSE "") \o NatText(a % 100)

-----------------------------------------------------------------------------
(* Tokens and the lexer                                                    *)

Tok(typ, val) == [typ |-> typ, val |-> val]

EOF == Tok("tEOF", <<>>)

Sym(typ, c) == Tok(typ, <<c>>)

AND == Tok("tAND", <<"A", "N", "D">>)

OR == Tok("tOR", <<"O", "R">>)

NOT == Tok("tNOT", <<"N", "O", "T">>)

TO == Tok("tTO", <<"T", "O">>)

COLON == Sym("tCOLON", ":")

EQUAL == Sym("tEQUAL", "=")

LPAREN == Sym("tLPAREN", "(")

RPAREN == Sym("tRPAREN", ")")

LSQUARE == Sym("tLSQUARE", "[")

RSQUARE == Sym("tRSQUARE", "]")

LCURLY == Sym("tLCURLY", "{")

RCURLY == Sym("tRCURLY", "}")

PLUS == Sym("tPLUS", "+")

MINUS == Sym("tMINUS", "-")

CARROT == Sym("tCARROT", "^")

TILDE == Sym("tTILDE", "~")

ERR == Tok("tERR", <<"e", "r", "r">>)

L(c) == Sym("tLITERAL", c)

QUOTED == Tok("tQUOTED", <<"\"", "q", "\"">>)

REGEXP == Tok("tREGEXP", <<"/", "r", "/">>)

\* the query languages: every kind of token; the boolean queries (literals
\* joined by AND, OR and NOT); the clauses (field/value pairs with prefixes,
\* groups and connectives); the range queries
AllTokens ==
    {L("a"), L("5"), L("*"), L("0"), QUOTED, REGEXP, COLON, EQUAL, NOT, AND, OR, TO,
     LPAREN, RPAREN, LSQUARE, RSQUARE, LCURLY, RCURLY, PLUS, MINUS, CARROT, TILDE, ERR}

BoolTokens == {L("a"), L("b"), AND, OR, NOT}

ClauseTokens == {L("a"), L("b"), COLON, PLUS, MINUS, AND, OR, LPAREN, RPAREN}

RangeTokens == {L("a"), L("5"), L("*"), COLON, TO, LSQUARE, RSQUARE, LCURLY, RCURLY}

\* the regular expressions: a field, the separator and /.../ tokens whose body
\* is made of plain characters and escaped slashes
MaxUnits == 2

RegexpUnits == {<<"r">>, <<".">>, <<"\\", "/">>}

RECURSIVE RegexpBodies(_)
RegexpBodies(n) ==
    IF n = 0 THEN {<<>>} ELSE {u \o b : u \in RegexpUnits, b \in RegexpBodies(n - 1)}

RegexpToken(body) == Tok("tREGEXP", <<"/">> \o body \o <<"/">>)

RegexpTokens ==
    {L("a"), COLON} \cup {RegexpToken(b) : b \in UNION {RegexpBodies(n) : n \in 1..MaxUnits}}

MaxRegexp == 3

MaxTokens == 4

MaxBool == 7

MaxClause == 6

MaxRange == 7

\* the queries on which termination is checked: the tokens after which
\* parser.parse calls itself or backs up
TermTokens == {L("a"), COLON, AND, NOT, LPAREN, RPAREN, TILDE}

MaxTerm == 6

\* the tokens and the length of the input when the cursor is driven on its own
CursorTokens == {L("a"), L("b")}

MaxCursor == 3

Alphabet ==
    CASE lang = "all" -> AllTokens
      [] lang = "bool" -> BoolTokens
      [] lang = "clause" -> ClauseTokens
      [] lang = "range" -> RangeTokens
      [] lang = "regexp" -> RegexpTokens
      [] lang = "cursor" -> CursorTokens
      [] lang = "term" -> TermTokens
      [] OTHER -> {}

MaxLen ==
    CASE lang = "all" -> MaxTokens
      [] lang = "bool" -> MaxBool
      [] lang = "clause" -> MaxClause
      [] lang = "range" -> MaxRange
      [] lang = "regexp" -> MaxRegexp
      [] lang = "cursor" -> MaxCursor
      [] lang = "term" -> MaxTerm
      [] OTHER -> 0

\* lexer.nextToken: one token per call; past the end of the input it keeps
\* returning the end token.  The input of a run is any sequence of at most
\* MaxLen tokens of the run's language.
nextToken(n, ended) == IF ended \/ n >= MaxLen THEN {EOF} ELSE Alphabet \cup {EOF}

\* parser.next: the outcomes of one call, as the token and the parser's new
\* buffer, cursor and lexer position
next(toks, idx, n, ended) ==
    IF idx < Len(toks) - 1
    THEN {[tok |-> toks[idx + 2], tokens |-> toks, tokIdx |-> idx + 1,
           lexed |-> n, lexEnded |-> ended]}
    ELSE {[tok |-> t, tokens |-> Append(toks, t), tokIdx |-> idx + 1,
           lexed |-> IF t.typ = "tEOF" THEN n ELSE n + 1,
           lexEnded |-> ended \/ t.typ = "tEOF"] : t \in nextToken(n, ended)}

\* parser.backup without its guard
backupUnguarded(idx) == idx - 1

\* parser.backup
backup(idx) == IF idx < 0 THEN idx ELSE idx - 1

-----------------------------------------------------------------------------
(* Expressions and their insert methods                                    *)

NIL == [typ |-> "nil"]

StrLit(val) == [typ |-> "Literal", kind |-> "string", val |-> val, num |-> 0]

IntLit(n) == [typ |-> "Literal", kind |-> "int", val |-> <<>>, num |-> n]

WildLit(val) == [typ |-> "WildLiteral", kind |-> "string", val |-> val, num |-> 0]

RegexpLit(val) == [typ |-> "RegexpLiteral", kind |-> "string", val |-> val, num |-> 0]

MkEquals(term, value, isMust, isMustNot) ==
    [typ |-> "Equals", term |-> term, value |-> value, isMust |-> isMust, isMustNot |-> isMustNot]

MkAnd(l, r) == [typ |-> "And", left |-> l, right |-> r]

MkOr(l, r) == [typ |-> "Or", left |-> l, right |-> r]

MkNot(x) == [typ |-> "Not", expr |-> x]

MkMust(x) == [typ |-> "Must", expr |-> x]

MkMustNot(x) == [typ |-> "MustNot", expr |-> x]

MkRange(min, max, inclusive) == [typ |-> "Range", Min |-> min, Max |-> max, Inclusive |-> inclusive]

MkBoost(x, power) == [typ |-> "Boost", expr |-> x, power |-> power]

MkFuzzy(x, distance) == [typ |-> "Fuzzy", expr |-> x, distance |-> distance]

Ok(e) == [e |-> e, err |-> ""]

Fail(e, msg) == [e |-> e, err |-> msg]

LiteralTypes == {"Literal", "WildLiteral", "RegexpLiteral"}

\* the *Literal embedded in a WildLiteral or RegexpLiteral: Literal.insert is
\* promoted, so its receiver is the embedded value
Embedded(l) == [l EXCEPT !.typ = "Literal"]

\* Equals.insert
EqualsInsert(eq, e) ==
    LET isLiteral == e.typ = "Literal"
    IN  IF eq.term = <<>> /\ ~isLiteral
        THEN Fail(NIL, "an equals expression must have a string as a term")
        ELSE IF eq.term = <<>> /\ isLiteral
        THEN IF e.kind # "string"
             THEN Fail(NIL, "unable to insert non string into equals term")
             ELSE Ok([eq EXCEPT !.term = e.val])
        ELSE IF eq.term # <<>> /\ eq.value # NIL
        THEN Ok(MkAnd(eq, e))
        ELSE IF eq.isMust
        THEN Ok(MkMust([eq EXCEPT !.value = e, !.isMust = FALSE]))
        ELSE IF eq.isMustNot
        THEN Ok(MkMustNot([eq EXCEPT !.value = e, !.isMustNot = FALSE]))
        ELSE Ok([eq EXCEPT !.value = e])

\* And.insert and Or.insert
BinaryInsert(a, e) ==
    IF a.left = NIL THEN Ok([a EXCEPT !.left = e])
    ELSE IF a.right = NIL THEN Ok([a EXCEPT !.right = e])
    ELSE Ok(MkAnd(a, e))

\* Literal.insert
LiteralInsert(l, e) ==
    IF e.typ = "Equals" THEN EqualsInsert(e, Embedded(l)) ELSE Ok(MkAnd(Embedded(l), e))

\* Range.insert
RangeInsert(r, e) ==
    IF r.Min = NIL
    THEN Fail(NIL, "should not be able to have a TO expression without a minimum")
    ELSE IF r.Max # NIL THEN Ok(MkAnd(r, e))
    ELSE IF e.typ \in {"Literal", "WildLiteral"} THEN Ok([r EXCEPT !.Max = e])
    ELSE Fail(NIL, "unable to insert expression as max in a range")

\* e.insert(x), dispatched on the type of the receiver
insert(recv, x) ==
    CASE recv.typ = "Equals" -> EqualsInsert(recv, x)
      [] recv.typ \in {"And", "Or"} -> BinaryInsert(recv, x)
      [] recv.typ \in {"Not", "Must", "MustNot"} -> Ok([recv EXCEPT !.expr = x])
      [] recv.typ \in LiteralTypes -> LiteralInsert(recv, x)
      [] recv.typ = "Range" -> RangeInsert(recv, x)
      [] recv.typ \in {"Boost", "Fuzzy"} -> Ok(MkAnd(recv, x))

\* the receiver object after a call of insert whose result is thrown away:
\* changed where insert fills the receiver in place, the same otherwise
afterInsert(recv, x) ==
    CASE recv.typ = "Equals" ->
            IF recv.term = <<>>
            THEN IF x.typ = "Literal" /\ x.kind = "string" THEN [recv EXCEPT !.term = x.val] ELSE recv
            ELSE IF recv.value # NIL THEN recv
            ELSE [recv EXCEPT !.value = x,
                              !.isMust = FALSE,
                              !.isMustNot = IF recv.isMust THEN recv.isMustNot ELSE FALSE]
      [] recv.typ \in {"And", "Or"} ->
            IF recv.left = NIL THEN [recv EXCEPT !.left = x]
            ELSE IF recv.right = NIL THEN [recv EXCEPT !.right = x]
            ELSE recv
      [] recv.typ \in {"Not", "Must", "MustNot"} -> [recv EXCEPT !.expr = x]
      [] recv.typ = "Range" ->
            IF recv.Min # NIL /\ recv.Max = NIL /\ x.typ \in {"Literal", "WildLiteral"}
            THEN [recv EXCEPT !.Max = x] ELSE recv
      [] OTHER -> recv

-----------------------------------------------------------------------------
(* Literal tokens                                                          *)

ContainsAny(s, chars) == \E i \in 1..Len(s) : s[i] \in chars

RECURSIVE ReplaceAllChar(_, _)
\* strings.ReplaceAll(s, c, "") for a one-character c
ReplaceAllChar(s, c) ==
    IF s = <<>> THEN <<>>
    ELSE IF Head(s) = c THEN ReplaceAllChar(Tail(s), c)
    ELSE <<Head(s)>> \o ReplaceAllChar(Tail(s), c)

\* parseLiteral taking only runs of digits for integers
parseLiteralDigitsOnly(val) ==
    IF AllDigits(val, 10) /\ FitsInt64(val) THEN IntLit(NatOf(val, 10))
    ELSE IF ContainsAny(val, {"*", "?"}) THEN WildLit(val)
    ELSE StrLit(val)

\* parseLiteral
parseLiteral(val) ==
    IF AtoiOk(val) THEN IntLit(Atoi(val))
    ELSE IF ContainsAny(val, {"*", "?"}) THEN WildLit(val)
    ELSE StrLit(val)

\* toPositiveInt: the error is nil exactly when this holds
toPositiveIntOk(val) == AtoiOk(val) /\ Atoi(val) > 0

\* toPositiveFloat
toPositiveFloatOk(val) ==
    \/ AtoiOk(val) /\ Atoi(val) > 0
    \/ ParseFloatOk(val) /\ Hundredths(val) > 0

\* the power toPositiveFloat returns, in hundredths
toPositiveFloat(val) == IF AtoiOk(val) /\ Atoi(val) > 0 THEN Atoi(val) * 100 ELSE Hundredths(val)

\* wrapInBoost
wrapInBoost(e, power) ==
    IF e = NIL THEN Fail(e, "carrot must follow another expression") ELSE Ok(MkBoost(e, power))

\* wrapInFuzzy
wrapInFuzzy(e, distance) ==
    IF e = NIL THEN Fail(e, "carrot must follow another expression") ELSE Ok(MkFuzzy(e, distance))

\* canAcceptNextToken without its first test: the empty expression is treated
\* as any other
canAcceptNextTokenNilRefuses(curr, token) ==
    token.typ \in {"tAND", "tOR", "tRPAREN", "tCARROT", "tTILDE"}

\* canAcceptNextToken
canAcceptNextToken(curr, token) ==
    IF curr = NIL THEN TRUE
    ELSE IF curr.typ \in {"Literal", "WildLiteral", "Range", "RegexpLiteral"} THEN TRUE
    ELSE IF curr.typ = "Equals"
    THEN IF curr.value = NIL
         THEN token.typ \in {"tLITERAL", "tQUOTED", "tREGEXP", "tLCURLY", "tLSQUARE", "tLPAREN"}
         ELSE token.typ \in {"tAND", "tOR", "tCARROT", "tTILDE", "tRPAREN"}
    ELSE token.typ \in {"tAND", "tOR", "tRPAREN", "tCARROT", "tTILDE"}

\* parser.checkExpressionStack
checkExpressionStack(count) == IF count # 0 THEN "unterminated paren" ELSE ""

\* parser.updateExpressionStack
updateExpressionStack(count, s) == IF s = <<"(">> THEN count + 1 ELSE count - 1

RECURSIVE validate(_)
\* validate: the error, "" for nil
validate(e) ==
    CASE e.typ = "Equals" ->
            IF e.term = <<>> \/ e.value = NIL
            THEN "EQUALS operator must have both sides of the expression"
            ELSE validate(e.value)
      [] e.typ = "And" ->
            IF e.left = NIL \/ e.right = NIL THEN "AND clause must have two sides"
            ELSE IF validate(e.left) # "" THEN validate(e.left) ELSE validate(e.right)
      [] e.typ = "Or" ->
            IF e.left = NIL \/ e.right = NIL THEN "OR clause must have two sides"
            ELSE IF validate(e.left) # "" THEN validate(e.left) ELSE validate(e.right)
      [] e.typ = "Not" ->
            IF e.expr = NIL THEN "NOT expression must have a sub expression to negate"
            ELSE validate(e.expr)
      [] e.typ \in LiteralTypes -> ""
      [] e.typ = "Range" ->
            IF e.Min = NIL \/ e.Max = NIL THEN "range clause must have a min and a max"
            ELSE IF validate(e.Min) # "" THEN validate(e.Min) ELSE validate(e.Max)
      [] e.typ = "Must" ->
            IF e.expr = NIL THEN "MUST expression must have a sub expression"
            ELSE IF e.expr.typ \in {"Must", "MustNot"}
            THEN "MUST cannot be repeated with itself or MUST NOT"
            ELSE validate(e.expr)
      [] e.typ = "MustNot" ->
            IF e.expr = NIL THEN "MUST NOT expression must have a sub expression"
            ELSE IF e.expr.typ \in {"Must", "MustNot"}
            THEN "MUST NOT cannot be repeated with itself or MUST"
            ELSE validate(e.expr)
      [] e.typ = "Boost" ->
            IF e.expr = NIL THEN "BOOST expression must have a subexpression"
            ELSE validate(e.expr)
      [] e.typ = "Fuzzy" ->
            IF e.expr = NIL THEN "FUZZY expression must have a subexpression"
            ELSE validate(e.expr)
      [] OTHER -> "unable to validate Expression type"

-----------------------------------------------------------------------------
(* parser.parse, one action per step of its loop                           *)

Top == stack[Len(stack)]

Frame(e, site) == [e |-> e, site |-> site]

Looping == pc = "loop" /\ stack # <<>>

\* the running call goes on with its loop, its expression now e
Continue(e) ==
    /\ stack' = [stack EXCEPT ![Len(stack)] = Frame(e, "none")]
    /\ pc' = "loop"
    /\ ret' = Ok(NIL)

\* the running call returns (e, err) to its caller
Return(e, err) ==
    /\ stack' = SubSeq(stack, 1, Len(stack) - 1)
    /\ pc' = "ret"
    /\ ret' = Fail(e, err)

\* the running call, its expression e, calls p.parse() from the given place
Call(e, site) ==
    /\ stack' = Append([stack EXCEPT ![Len(stack)] = Frame(e, site)], Frame(NIL, "none"))
    /\ pc' = "loop"
    /\ ret' = Ok(NIL)

\* the parser's buffer, cursor and lexer after the call of p.next() that gave f
Took(f) ==
    /\ tokens' = f.tokens
    /\ tokIdx' = f.tokIdx
    /\ lexed' = f.lexed
    /\ lexEnded' = f.lexEnded

Flags(must, mustNot) == hasMust' = must /\ hasMustNot' = mustNot

Count(c) ==
    /\ subExpressionCount' = c
    /\ minCount' = IF c < minCount THEN c ELSE minCount

Fixed == UNCHANGED <<lang, result, rin, rout>>

\* the token of kind typ that this step reads, acceptable to the expression
Reads(f, typ) == f.tok.typ = typ /\ canAcceptNextToken(Top.e, f.tok)

\* tEOF: return e and the check of the paren counter
StepEOF ==
    /\ Looping
    /\ \E f \in next(tokens, tokIdx, lexed, lexEnded) :
        /\ f.tok.typ = "tEOF"
        /\ Took(f)
        /\ Return(Top.e, checkExpressionStack(subExpressionCount))
    /\ UNCHANGED <<hasMust, hasMustNot, subExpressionCount, minCount>>
    /\ Fixed

\* the expression cannot take the token: back up, parse the rest and insert it
StepCannotAccept ==
    /\ Looping
    /\ \E f \in next(tokens, tokIdx, lexed, lexEnded) :
        /\ f.tok.typ # "tEOF"
        /\ ~canAcceptNextToken(Top.e, f.tok)
        /\ tokens' = f.tokens
        /\ tokIdx' = backup(f.tokIdx)
        /\ lexed' = f.lexed
        /\ lexEnded' = f.lexEnded
        /\ Call(Top.e, "insert")
    /\ UNCHANGED <<hasMust, hasMustNot, subExpressionCount, minCount>>
    /\ Fixed

ReturnInsert ==
    /\ pc = "ret" /\ stack # <<>> /\ Top.site = "insert"
    /\ IF ret.err # ""
       THEN Return(Top.e, ret.err)
       ELSE Return(insert(Top.e, ret.e).e, insert(Top.e, ret.e).err)
    /\ UNCHANGED <<tokens, tokIdx, lexed, lexEnded, hasMust, hasMustNot, subExpressionCount, minCount>>
    /\ Fixed

\* tERR
StepERR ==
    /\ Looping
    /\ \E f \in next(tokens, tokIdx, lexed, lexEnded) :
        /\ Reads(f, "tERR")
        /\ Took(f)
        /\ Return(Top.e, Str(f.tok.val))
    /\ UNCHANGED <<hasMust, hasMustNot, subExpressionCount, minCount>>
    /\ Fixed

\* what the three literal cases do with the literal expr
TakeLiteral(expr, msg) ==
    IF Top.e = NIL
    THEN Continue(expr)
    ELSE LET r == insert(Top.e, expr)
         IN  IF r.err # "" THEN Return(r.e, msg \o r.err) ELSE Continue(r.e)

\* tLITERAL
StepLITERAL ==
    /\ Looping
    /\ \E f \in next(tokens, tokIdx, lexed, lexEnded) :
        /\ Reads(f, "tLITERAL")
        /\ Took(f)
        /\ TakeLiteral(parseLiteral(f.tok.val), "unable to insert literal into expression: ")
    /\ UNCHANGED <<hasMust, hasMustNot, subExpressionCount, minCount>>
    /\ Fixed

\* tQUOTED
StepQUOTED ==
    /\ Looping
    /\ \E f \in next(tokens, tokIdx, lexed, lexEnded) :
        /\ Reads(f, "tQUOTED")
        /\ Took(f)
        /\ TakeLiteral(StrLit(ReplaceAllChar(f.tok.val, "\"")),
                       "unable to insert quoted string into expression: ")
    /\ UNCHANGED <<hasMust, hasMustNot, subExpressionCount, minCount>>
    /\ Fixed

\* tREGEXP
StepREGEXP ==
    /\ Looping
    /\ \E f \in next(tokens, tokIdx, lexed, lexEnded) :
        /\ Reads(f, "tREGEXP")
        /\ Took(f)
        /\ TakeLiteral(RegexpLit(ReplaceAllChar(f.tok.val, "/")),
                       "unable to insert quoted string into expression: ")
    /\ UNCHANGED <<hasMust, hasMustNot, subExpressionCount, minCount>>
    /\ Fixed

\* tEQUAL, tCOLON
StepEQUAL ==
    /\ Looping
    /\ \E f \in next(tokens, tokIdx, lexed, lexEnded) :
        /\ Reads(f, "tEQUAL") \/ Reads(f, "tCOLON")
        /\ Took(f)
        /\ IF Top.e = NIL
           THEN /\ Return(Top.e, "invalid syntax: can't start expression with '= or :'")
                /\ UNCHANGED <<hasMust, hasMustNot>>
           ELSE LET r == insert(Top.e, MkEquals(<<>>, NIL, hasMust, hasMustNot))
                IN  IF r.err # ""
                    THEN /\ Return(r.e, "error updating expression with equals token: " \o r.err)
                         /\ UNCHANGED <<hasMust, hasMustNot>>
                    ELSE /\ Continue(r.e)
                         /\ Flags(FALSE, FALSE)
    /\ UNCHANGED <<subExpressionCount, minCount>>
    /\ Fixed

Returned(site) == pc = "ret" /\ stack # <<>> /\ Top.site = site

ParserRest == UNCHANGED <<tokens, tokIdx, lexed, lexEnded, hasMust, hasMustNot, subExpressionCount, minCount>>

\* tNOT: parse the following expression and wrap it with not
StepNOT ==
    /\ Looping
    /\ \E f \in next(tokens, tokIdx, lexed, lexEnded) :
        /\ Reads(f, "tNOT")
        /\ Took(f)
        /\ Call(Top.e, "not")
    /\ UNCHANGED <<hasMust, hasMustNot, subExpressionCount, minCount>>
    /\ Fixed

\* with an expression already there, the result of e.insert(not) is dropped
ReturnNOT ==
    /\ Returned("not")
    /\ IF ret.err # ""
       THEN Return(Top.e, ret.err)
       ELSE IF Top.e = NIL
       THEN Continue(MkNot(ret.e))
       ELSE Continue(afterInsert(Top.e, MkNot(ret.e)))
    /\ ParserRest
    /\ Fixed

\* tAND
StepAND ==
    /\ Looping
    /\ \E f \in next(tokens, tokIdx, lexed, lexEnded) :
        /\ Reads(f, "tAND")
        /\ Took(f)
        /\ Call(Top.e, "and")
    /\ UNCHANGED <<hasMust, hasMustNot, subExpressionCount, minCount>>
    /\ Fixed

ReturnAND ==
    /\ Returned("and")
    /\ IF ret.err # ""
       THEN Return(Top.e, "unable to build AND clause: " \o ret.err)
       ELSE Return(MkAnd(Top.e, ret.e), "")
    /\ ParserRest
    /\ Fixed

\* tOR
StepOR ==
    /\ Looping
    /\ \E f \in next(tokens, tokIdx, lexed, lexEnded) :
        /\ Reads(f, "tOR")
        /\ Took(f)
        /\ Call(Top.e, "or")
    /\ UNCHANGED <<hasMust, hasMustNot, subExpressionCount, minCount>>
    /\ Fixed

ReturnOR ==
    /\ Returned("or")
    /\ IF ret.err # ""
       THEN Return(Top.e, "unable to build AND clause: " \o ret.err)
       ELSE Return(MkOr(Top.e, ret.e), "")
    /\ ParserRest
    /\ Fixed

\* tLPAREN
StepLPAREN ==
    /\ Looping
    /\ \E f \in next(tokens, tokIdx, lexed, lexEnded) :
        /\ Reads(f, "tLPAREN")
        /\ Took(f)
        /\ Count(updateExpressionStack(subExpressionCount, f.tok.val))
        /\ Call(Top.e, "lparen")
    /\ UNCHANGED <<hasMust, hasMustNot>>
    /\ Fixed

ReturnLPAREN ==
    /\ Returned("lparen")
    /\ IF ret.err # ""
       THEN Return(Top.e, "unable to parse sub-expression: " \o ret.err)
       ELSE IF Top.e # NIL
       THEN LET r == insert(Top.e, ret.e)
            IN  IF r.err # "" THEN Return(r.e, r.err) ELSE Continue(r.e)
       ELSE Continue(ret.e)
    /\ ParserRest
    /\ Fixed

\* tRPAREN
StepRPAREN ==
    /\ Looping
    /\ \E f \in next(tokens, tokIdx, lexed, lexEnded) :
        /\ Reads(f, "tRPAREN")
        /\ Took(f)
        /\ Count(updateExpressionStack(subExpressionCount, f.tok.val))
        /\ IF updateExpressionStack(subExpressionCount, f.tok.val) < 0
           THEN Return(Top.e, "unbalanced closing paren")
           ELSE Return(Top.e, "")
    /\ UNCHANGED <<hasMust, hasMustNot>>
    /\ Fixed

\* tLSQUARE and tLCURLY: the sub expression has to be a range
OpenRange(typ, site) ==
    /\ Looping
    /\ \E f \in next(tokens, tokIdx, lexed, lexEnded) :
        /\ Reads(f, typ)
        /\ Took(f)
        /\ IF Top.e = NIL
           THEN Return(Top.e, "unable to insert range into empty expression")
           ELSE Call(Top.e, site)
    /\ UNCHANGED <<hasMust, hasMustNot, subExpressionCount, minCount>>
    /\ Fixed

RangeReturned(site, inclusive) ==
    /\ Returned(site)
    /\ IF ret.err # ""
       THEN Return(Top.e, "unable to parse inclusive range: " \o ret.err)
       ELSE IF ret.e.typ # "Range"
       THEN Return(Top.e, "brackets must surround a range query (hint: use the TO operator in the brackets)")
       ELSE LET r == insert(Top.e, [ret.e EXCEPT !.Inclusive = inclusive])
            IN  IF r.err # "" THEN Return(r.e, r.err) ELSE Continue(r.e)
    /\ ParserRest
    /\ Fixed

StepLSQUARE == OpenRange("tLSQUARE", "lsquare")

ReturnLSQUARE == RangeReturned("lsquare", TRUE)

StepLCURLY == OpenRange("tLCURLY", "lcurly")

ReturnLCURLY == RangeReturned("lcurly", FALSE)

\* tTO
StepTO ==
    /\ Looping
    /\ \E f \in next(tokens, tokIdx, lexed, lexEnded) :
        /\ Reads(f, "tTO")
        /\ Took(f)
        /\ IF Top.e.typ \in {"Literal", "WildLiteral"}
           THEN Continue(MkRange(Top.e, NIL, FALSE))
           ELSE Return(NIL, "the TO keyword must follow a literal expression")
    /\ UNCHANGED <<hasMust, hasMustNot, subExpressionCount, minCount>>
    /\ Fixed

\* tRSQUARE, tRCURLY
StepRBRACKET ==
    /\ Looping
    /\ \E f \in next(tokens, tokIdx, lexed, lexEnded) :
        /\ f.tok.typ \in {"tRSQUARE", "tRCURLY"}
        /\ canAcceptNextToken(Top.e, f.tok)
        /\ Took(f)
        /\ Return(Top.e, "")
    /\ UNCHANGED <<hasMust, hasMustNot, subExpressionCount, minCount>>
    /\ Fixed

\* tPLUS
StepPLUS ==
    /\ Looping
    /\ \E f \in next(tokens, tokIdx, lexed, lexEnded) :
        /\ Reads(f, "tPLUS")
        /\ Took(f)
        /\ Continue(Top.e)
    /\ Flags(TRUE, hasMustNot)
    /\ UNCHANGED <<subExpressionCount, minCount>>
    /\ Fixed

\* tMINUS
StepMINUS ==
    /\ Looping
    /\ \E f \in next(tokens, tokIdx, lexed, lexEnded) :
        /\ Reads(f, "tMINUS")
        /\ Took(f)
        /\ Continue(Top.e)
    /\ Flags(hasMust, TRUE)
    /\ UNCHANGED <<subExpressionCount, minCount>>
    /\ Fixed

\* tCARROT: the boost term is the next token
StepCARROT ==
    /\ Looping
    /\ \E f \in next(tokens, tokIdx, lexed, lexEnded) :
        /\ Reads(f, "tCARROT")
        /\ \E g \in next(f.tokens, f.tokIdx, f.lexed, f.lexEnded) :
            /\ Took(g)
            /\ IF g.tok.typ # "tLITERAL"
               THEN Return(Top.e, "term boost must be follow by positive number")
               ELSE IF ~toPositiveFloatOk(g.tok.val)
               THEN Return(Top.e, "not able to parse boost number: is not a positive number")
               ELSE LET r == wrapInBoost(Top.e, toPositiveFloat(g.tok.val))
                    IN  IF r.err # ""
                        THEN Return(r.e, "unable to wrap expression in boost: " \o r.err)
                        ELSE Continue(r.e)
    /\ UNCHANGED <<hasMust, hasMustNot, subExpressionCount, minCount>>
    /\ Fixed

\* tTILDE: the edit distance is the next token, if that is a literal
StepTILDE ==
    /\ Looping
    /\ \E f \in next(tokens, tokIdx, lexed, lexEnded) :
        /\ Reads(f, "tTILDE")
        /\ \E g \in next(f.tokens, f.tokIdx, f.lexed, f.lexEnded) :
            /\ tokens' = g.tokens
            /\ lexed' = g.lexed
            /\ lexEnded' = g.lexEnded
            /\ IF g.tok.typ # "tLITERAL"
               THEN /\ tokIdx' = backup(g.tokIdx)
                    /\ LET r == wrapInFuzzy(Top.e, 1)
                       IN  IF r.err # ""
                           THEN Return(r.e, "not able to wrap expression in fuzzy search: " \o r.err)
                           ELSE Continue(r.e)
               ELSE /\ tokIdx' = g.tokIdx
                    /\ IF ~toPositiveIntOk(g.tok.val)
                       THEN Return(Top.e, "not able to parse fuzzy distance: is not a positive number")
                       ELSE LET r == wrapInFuzzy(Top.e, Atoi(g.tok.val))
                            IN  IF r.err # ""
                                THEN Return(r.e, "unable to wrap expression in boost: " \o r.err)
                                ELSE Continue(r.e)
    /\ UNCHANGED <<hasMust, hasMustNot, subExpressionCount, minCount>>
    /\ Fixed

\* Parse: the outermost call has returned; validate its expression
ParseReturns ==
    /\ pc = "ret" /\ stack = <<>>
    /\ result' = IF ret.err # "" THEN ret ELSE Fail(ret.e, validate(ret.e))
    /\ pc' = "done"
    /\ UNCHANGED <<stack, ret, lang, rin, rout>>
    /\ ParserRest

NextParse ==
    \/ StepEOF \/ StepCannotAccept \/ ReturnInsert \/ StepERR
    \/ StepLITERAL \/ StepQUOTED \/ StepREGEXP \/ StepEQUAL
    \/ StepNOT \/ ReturnNOT \/ StepAND \/ ReturnAND \/ StepOR \/ ReturnOR
    \/ StepLPAREN \/ ReturnLPAREN \/ StepRPAREN
    \/ StepLSQUARE \/ ReturnLSQUARE \/ StepLCURLY \/ ReturnLCURLY
    \/ StepTO \/ StepRBRACKET \/ StepPLUS \/ StepMINUS
    \/ StepCARROT \/ StepTILDE \/ ParseReturns

-----------------------------------------------------------------------------
(* The inputs                                                              *)

\* Parse: a parser at tokIdx -1 over a lexer that has produced nothing
InitParser(language) ==
    /\ lang = language
    /\ lexed = 0
    /\ lexEnded = FALSE
    /\ tokens = <<>>
    /\ tokIdx = -1
    /\ hasMust = FALSE
    /\ hasMustNot = FALSE
    /\ subExpressionCount = 0
    /\ minCount = 0
    /\ stack = <<Frame(NIL, "none")>>
    /\ ret = Ok(NIL)
    /\ pc = "loop"
    /\ result = Ok(NIL)
    /\ rin = NIL
    /\ rout = NIL

\* Parse on every input of at most MaxTokens tokens
Init == InitParser("all")

Spec == Init /\ [][NextParse]_vars

\* Parse on the boolean queries
InitBool == InitParser("bool")

NextBool ==
    \/ StepEOF \/ StepCannotAccept \/ ReturnInsert \/ StepLITERAL
    \/ StepNOT \/ ReturnNOT \/ StepAND \/ ReturnAND \/ StepOR \/ ReturnOR
    \/ ParseReturns

SpecBool == InitBool /\ [][NextBool]_vars

\* Parse on the clauses
InitClause == InitParser("clause")

NextClause ==
    \/ StepEOF \/ StepCannotAccept \/ ReturnInsert \/ StepLITERAL \/ StepEQUAL
    \/ StepAND \/ ReturnAND \/ StepOR \/ ReturnOR
    \/ StepLPAREN \/ ReturnLPAREN \/ StepRPAREN \/ StepPLUS \/ StepMINUS
    \/ ParseReturns

SpecClause == InitClause /\ [][NextClause]_vars

\* Parse on the range queries
InitRange == InitParser("range")

NextRange ==
    \/ StepEOF \/ StepCannotAccept \/ ReturnInsert \/ StepLITERAL \/ StepEQUAL
    \/ StepLSQUARE \/ ReturnLSQUARE \/ StepLCURLY \/ ReturnLCURLY
    \/ StepTO \/ StepRBRACKET \/ ParseReturns

SpecRange == InitRange /\ [][NextRange]_vars

\* Parse on the regular expressions
InitRegexp == InitParser("regexp")

NextRegexp ==
    \/ StepEOF \/ StepCannotAccept \/ ReturnInsert \/ StepLITERAL \/ StepREGEXP
    \/ StepEQUAL \/ ParseReturns

SpecRegexp == InitRegexp /\ [][NextRegexp]_vars

-----------------------------------------------------------------------------
(* What the claims say of Parse                                            *)

IsEOF(t) == t.typ = "tEOF"

NotEOF(t) == t.typ # "tEOF"

\* the query: the tokens the lexer has produced, without the end tokens
Input == SelectSeq(tokens, NotEOF)

Done == pc = "done"

Succeeded == pc = "done" /\ result.err = ""

Has(s, typ) == \E i \in 1..Len(s) : s[i].typ = typ

LastOf(s, typ) == CHOOSE i \in 1..Len(s) : s[i].typ = typ /\ \A j \in (i + 1)..Len(s) : s[j].typ # typ

Before(s, i) == SubSeq(s, 1, i - 1)

After(s, i) == SubSeq(s, i + 1, Len(s))

RECURSIVE IsUnary(_)
\* UnaryExpr := NOT UnaryExpr | Literal
IsUnary(s) ==
    /\ s # <<>>
    /\ IF s[1].typ = "tNOT" THEN IsUnary(Tail(s)) ELSE Len(s) = 1 /\ s[1].typ = "tLITERAL"

RECURSIVE UnaryTree(_)
UnaryTree(s) == IF s[1].typ = "tNOT" THEN MkNot(UnaryTree(Tail(s))) ELSE parseLiteral(s[1].val)

RECURSIVE IsAndExpr(_)
\* AndExpr := UnaryExpr (AND UnaryExpr)*
IsAndExpr(s) ==
    IF Has(s, "tAND")
    THEN IsAndExpr(Before(s, LastOf(s, "tAND"))) /\ IsUnary(After(s, LastOf(s, "tAND")))
    ELSE IsUnary(s)

RECURSIVE AndTree(_)
\* left-associative: the last AND is the root
AndTree(s) ==
    IF Has(s, "tAND")
    THEN MkAnd(AndTree(Before(s, LastOf(s, "tAND"))), UnaryTree(After(s, LastOf(s, "tAND"))))
    ELSE UnaryTree(s)

RECURSIVE IsOrExpr(_)
\* OrExpr := AndExpr (OR AndExpr)*
IsOrExpr(s) ==
    IF Has(s, "tOR")
    THEN IsOrExpr(Before(s, LastOf(s, "tOR"))) /\ IsAndExpr(After(s, LastOf(s, "tOR")))
    ELSE IsAndExpr(s)

RECURSIVE OrTree(_)
\* AND binds tighter than OR; left-associative: the last OR is the root
OrTree(s) ==
    IF Has(s, "tOR")
    THEN MkOr(OrTree(Before(s, LastOf(s, "tOR"))), AndTree(After(s, LastOf(s, "tOR"))))
    ELSE AndTree(s)

\* C1: for a chain of literals joined by explicit AND and OR, without parentheses,
\* Parse builds the tree in which AND binds tighter than OR and both associate to
\* the left: a OR b AND c OR d gives Or(Or(a, And(b, c)), d), a AND b AND c gives
\* And(And(a, b), c).
C1_PrecedenceLeftAssoc ==
    (Done /\ IsOrExpr(Input) /\ ~Has(Input, "tNOT") /\ Len(Input) > 1)
        => result = Ok(OrTree(Input))

\* C2: NOT negates only the unary expression that follows it: in a chain of
\* clauses with NOT, joined by AND and OR, each NOT wraps its own operand and
\* the chain after the operand stays outside of it.
C2_NotBindsTightest ==
    (Done /\ IsOrExpr(Input) /\ Has(Input, "tNOT"))
        => result = Ok(OrTree(Input))

\* the complete clauses of one or two literals, each with the tree it stands for
StringLiterals == {L("a"), L("b")}

Pair(f, v) == MkEquals(f.val, parseLiteral(v.val), FALSE, FALSE)

Clauses ==
    {[toks |-> <<l>>, tree |-> parseLiteral(l.val)] : l \in StringLiterals}
    \cup {[toks |-> <<NOT, l>>, tree |-> MkNot(parseLiteral(l.val))] : l \in StringLiterals}
    \cup {[toks |-> <<LPAREN, l, RPAREN>>, tree |-> parseLiteral(l.val)] : l \in StringLiterals}
    \cup UNION {{[toks |-> <<f, COLON, v>>, tree |-> Pair(f, v)],
                 [toks |-> <<PLUS, f, COLON, v>>, tree |-> MkMust(Pair(f, v))],
                 [toks |-> <<MINUS, f, COLON, v>>, tree |-> MkMustNot(Pair(f, v))]}
                    : <<f, v>> \in StringLiterals \X StringLiterals}

\* C3: implicit conjunction: for two complete clauses X and Y, the query X Y
\* parses to the tree of X AND Y, the And whose left is X and whose right is Y.
C3_ImplicitConjunction ==
    \A X \in Clauses, Y \in Clauses :
        (Done /\ Input = X.toks \o Y.toks) => result = Ok(MkAnd(X.tree, Y.tree))

RECURSIVE Marked(_)
\* the Must and MustNot nodes of a tree, each with the term of the Equals it
\* wraps (<<>> when it wraps something else)
Marked(e) ==
    CASE e.typ \in {"Must", "MustNot"} ->
            {<<e.typ, IF e.expr.typ = "Equals" THEN e.expr.term ELSE <<>> >>} \cup Marked(e.expr)
      [] e.typ \in {"And", "Or"} -> Marked(e.left) \cup Marked(e.right)
      [] e.typ \in {"Not", "Boost", "Fuzzy"} -> Marked(e.expr)
      [] e.typ = "Equals" -> Marked(e.value)
      [] e.typ = "Range" -> Marked(e.Min) \cup Marked(e.Max)
      [] OTHER -> {}

IsPrefix(t) == t.typ \in {"tPLUS", "tMINUS"}

\* the prefixes of the query that have a field/value pair directly after them
PrefixedPairs(s) ==
    {<<IF s[i].typ = "tPLUS" THEN "Must" ELSE "MustNot", s[i + 1].val>> :
        i \in {j \in 1..(Len(s) - 2) :
                 /\ IsPrefix(s[j])
                 /\ s[j + 1].typ = "tLITERAL"
                 /\ s[j + 2].typ \in {"tCOLON", "tEQUAL"}}}

\* a query of explicit form: every prefix stands before a literal, every
\* separator between two literals, and after a literal comes a separator, a
\* connective or a closing parenthesis
ExplicitQuery(s) ==
    /\ \A i \in 1..Len(s) : IsPrefix(s[i]) => (i < Len(s) /\ s[i + 1].typ = "tLITERAL")
    /\ \A i \in 1..Len(s) : s[i].typ \in {"tCOLON", "tEQUAL"} =>
            /\ 1 < i /\ i < Len(s)
            /\ s[i - 1].typ = "tLITERAL" /\ s[i + 1].typ = "tLITERAL"
    /\ \A i \in 1..(Len(s) - 1) : s[i].typ = "tLITERAL" =>
            s[i + 1].typ \in {"tCOLON", "tEQUAL", "tAND", "tOR", "tRPAREN"}

\* C4: a + or - marks exactly the field/value pair directly after it: the Must
\* and MustNot nodes of the tree are those pairs and no other, so a pending
\* flag never reaches a pair in a later group or after an intervening clause.
C4_MustMarksFollowingPairOnly ==
    (Succeeded /\ ExplicitQuery(Input)) => Marked(result.e) = PrefixedPairs(Input)

Opens(s, n) == Cardinality({i \in 1..n : s[i].typ = "tLPAREN"})

Closes(s, n) == Cardinality({i \in 1..n : s[i].typ = "tRPAREN"})

\* no ) without a ( before it, and no ( left open
ParensMatch(s) ==
    /\ \A n \in 1..Len(s) : Closes(s, n) <= Opens(s, n)
    /\ Closes(s, Len(s)) = Opens(s, Len(s))

\* C5: Parse succeeds only if the depth counter never went below zero and is
\* zero at the end, and only on a query whose parentheses match.
C5_ParenCounterBalanced ==
    Succeeded => (minCount >= 0 /\ subExpressionCount = 0 /\ ParensMatch(Input))

IsOpen(t) == t.typ \in {"tLSQUARE", "tLCURLY"}

Closer(t) == IF t.typ = "tLSQUARE" THEN "tRSQUARE" ELSE "tRCURLY"

\* term : [ min TO max   with the bracket ( [ or { ) never closed, or closed
\* with the bracket of the other kind
BadRangeQuery(s) ==
    /\ Len(s) \in {6, 7}
    /\ s[1] = L("a") /\ s[2] = COLON /\ IsOpen(s[3])
    /\ s[4].typ = "tLITERAL" /\ s[5] = TO /\ s[6].typ = "tLITERAL"
    /\ Len(s) = 7 => (s[7].typ \in {"tRSQUARE", "tRCURLY"} /\ s[7].typ # Closer(s[3]))

\* C6: a range that is never closed, or closed with the bracket of the other
\* kind, makes Parse return an error.
C6_MismatchedBracketsFail ==
    (Done /\ BadRangeQuery(Input)) => result.err # ""

\* a literal, or a literal AND a literal, with a ^ or ~ suffix after it, with
\* or without a number
SuffixKind(s) ==
    IF Has(s, "tCARROT") THEN "Boost" ELSE IF Has(s, "tTILDE") THEN "Fuzzy" ELSE "none"

Suffixes == {<<CARROT>>, <<TILDE>>, <<CARROT, L("5")>>, <<TILDE, L("5")>>}

\* C7: a ^ or ~ suffix, with or without a number, parses into a Boost or Fuzzy
\* node around the expression directly before it; the query is not rejected by
\* Parse.
C7_SuffixParses ==
    \A suffix \in Suffixes :
        /\ (Done /\ Input = <<L("a")>> \o suffix) =>
                /\ result.err = ""
                /\ result.e.typ = SuffixKind(suffix)
                /\ result.e.expr = StrLit(<<"a">>)
        /\ (Done /\ Input = <<L("a"), AND, L("a")>> \o suffix) =>
                /\ result.err = ""
                /\ result.e.typ = "And"
                /\ result.e.left = StrLit(<<"a">>)
                /\ result.e.right.typ = SuffixKind(suffix)
                /\ result.e.right.expr = StrLit(<<"a">>)

-----------------------------------------------------------------------------
(* The ClickHouse render functions.  A text is a sequence of pieces: single *)
(* characters where the code looks at characters, and the constant parts of *)
(* a format string kept whole; Str gives the Go string.  The zero byte and  *)
(* a byte that is not UTF-8 are the pieces NUL and BadUTF8, written as %q   *)
(* prints them.                                                             *)

Text(t) == [text |-> t, err |-> ""]

RenderError(msg) == [text |-> <<>>, err |-> msg]

NUL == "\\x00"

BadUTF8 == "\\xff"

\* literal
literal(left, right) ==
    IF \E i \in 1..Len(left) : left[i] = BadUTF8
    THEN RenderError("literal contains invalid utf8: \"" \o Str(left) \o "\"")
    ELSE IF \E i \in 1..Len(left) : left[i] = NUL
    THEN RenderError("literal contains null byte: \"" \o Str(left) \o "\"")
    ELSE Text(left)

\* equals, with the integer and the boolean test in the other order
equalsBoolFirst(left, right) ==
    IF Str(left) = "'_source'"
    THEN Text(<<"match(lowerUTF8(_source), lowerUTF8(">> \o right \o <<"))">>)
    ELSE IF ParseBoolOk(right)
    THEN Text(<<"bools.value[indexOf(bools.name,">> \o left \o <<")]", " = ">> \o right)
    ELSE IF ParseIntOk(right)
    THEN Text(<<"numbers.value[indexOf(numbers.name,">> \o left \o <<")]", " = ">> \o right)
    ELSE Text(<<"lowerUTF8(strings.value[indexOf(strings.name,">> \o left \o <<")])",
                " = lowerUTF8(">> \o right \o <<")">>)

\* equals
equals(left, right) ==
    IF Str(left) = "'_source'"
    THEN Text(<<"match(lowerUTF8(_source), lowerUTF8(">> \o right \o <<"))">>)
    ELSE IF ParseIntOk(right)
    THEN Text(<<"numbers.value[indexOf(numbers.name,">> \o left \o <<")]", " = ">> \o right)
    ELSE IF ParseBoolOk(right)
    THEN Text(<<"bools.value[indexOf(bools.name,">> \o left \o <<")]", " = ">> \o right)
    ELSE Text(<<"lowerUTF8(strings.value[indexOf(strings.name,">> \o left \o <<")])",
                " = lowerUTF8(">> \o right \o <<")">>)

\* noop
noop(left, right) == Text(left)

RECURSIVE ReplaceFirst(_, _, _)
\* strings.Replace(s, old, new, 1) for a two-character old
ReplaceFirst(s, old, new) ==
    IF Len(s) < 2 THEN s
    ELSE IF s[1] = old[1] /\ s[2] = old[2] THEN new \o SubSeq(s, 3, Len(s))
    ELSE <<s[1]>> \o ReplaceFirst(Tail(s), old, new)

\* strings.ReplaceAll(s, old, new) for one-character old and new
ReplaceAllWith(s, old, new) == [i \in 1..Len(s) |-> IF s[i] = old THEN new ELSE s[i]]

\* like
like(left, right) ==
    IF Len(right) >= 4 /\ right[2] = "/" /\ right[Len(right) - 1] = "/"
    THEN LET r1 == ReplaceFirst(right, <<"'", "/">>, <<"'">>)
             r2 == ReplaceFirst(r1, <<"/", "'">>, <<"'">>)
         IN  Text(<<"match(lowerUTF8(strings.value[indexOf(strings.name,">> \o left
                    \o <<")]),lowerUTF8(">> \o r2 \o <<"))">>)
    ELSE LET r == ReplaceAllWith(ReplaceAllWith(right, "*", "%"), "?", "_")
         IN  Text(<<"lowerUTF8(strings.value[indexOf(strings.name,">> \o left
                    \o <<")]) like lowerUTF8(">> \o r \o <<")">>)

\* inFn
inFn(left, right) ==
    IF ParseIntOk(right)
    THEN Text(<<"numbers.value[indexOf(numbers.name,">> \o left \o <<")]", " IN ">> \o right)
    ELSE IF ParseBoolOk(right)
    THEN Text(<<"bools.value[indexOf(bools.name,">> \o left \o <<")]", " IN ">> \o right)
    ELSE Text(<<"strings.value[indexOf(strings.name,">> \o left \o <<")]", " IN ">> \o right)

\* list
list(left, right) == Text(<<"(">> \o left \o <<")">>)

\* basicCompound(op)
basicCompound(op, left, right) == Text(left \o <<" ", op, " ">> \o right)

\* basicWrap(op)
basicWrap(op, left, right) == Text(<<op, "(">> \o left \o <<")">>)

RECURSIVE Split(_, _)
\* strings.Split(s, sep) for a one-character sep
Split(s, sep) ==
    IF \E i \in 1..Len(s) : s[i] = sep
    THEN LET i == CHOOSE k \in 1..Len(s) : s[k] = sep /\ \A j \in 1..(k - 1) : s[j] # sep
         IN  <<SubSeq(s, 1, i - 1)>> \o Split(SubSeq(s, i + 1, Len(s)), sep)
    ELSE <<s>>

RECURSIVE Trim(_, _)
\* strings.Trim(s, c) for a one-character cutset
Trim(s, c) ==
    IF s # <<>> /\ s[1] = c THEN Trim(Tail(s), c)
    ELSE IF s # <<>> /\ s[Len(s)] = c THEN Trim(SubSeq(s, 1, Len(s) - 1), c)
    ELSE s

Wildcard == <<"'", "*", "'">>

\* what strconv.Atoi returns beside a syntax error is 0
AtoiValue(s) == IF AtoiOk(s) THEN Atoi(s) ELSE 0

\* what strconv.ParseFloat returns beside a syntax error is 0; a parsed float keeps
\* its sign bit ("-0" is negative zero)
ParseFloatValue(s) ==
    IF ParseFloatOk(s)
    THEN [neg |-> HasSign(s) /\ s[1] = "-",
          abs |-> IF Hundredths(s) < 0 THEN 0 - Hundredths(s) ELSE Hundredths(s)]
    ELSE [neg |-> FALSE, abs |-> 0]

\* toInts
toInts(rawMin, rawMax) ==
    IF rawMin # Wildcard /\ ~AtoiOk(rawMin) THEN [ok |-> FALSE, min |-> 0, max |-> 0]
    ELSE IF rawMax # Wildcard /\ ~AtoiOk(rawMax) THEN [ok |-> FALSE, min |-> 0, max |-> 0]
    ELSE [ok |-> TRUE, min |-> AtoiValue(rawMin), max |-> AtoiValue(rawMax)]

\* toFloats, the values in hundredths
toFloats(rawMin, rawMax) ==
    IF rawMin # Wildcard /\ ~ParseFloatOk(rawMin) THEN [ok |-> FALSE]
    ELSE IF rawMax # Wildcard /\ ~ParseFloatOk(rawMax) THEN [ok |-> FALSE]
    ELSE [ok |-> TRUE, min |-> ParseFloatValue(rawMin), max |-> ParseFloatValue(rawMax)]

NumbersColumn(left) == <<"numbers.value[indexOf(numbers.name,">> \o left \o <<")]">>

\* the comparisons rang writes for numeric bounds already formatted
Comparisons(left, rawMin, rawMax, inclusive, min, max) ==
    IF rawMin = Wildcard
    THEN Text(NumbersColumn(left) \o <<IF inclusive THEN " <= " ELSE " < ", max>>)
    ELSE IF rawMax = Wildcard
    THEN Text(NumbersColumn(left) \o <<IF inclusive THEN " >= " ELSE " > ", min>>)
    ELSE Text(NumbersColumn(left) \o <<IF inclusive THEN " >= " ELSE " > ", min, " AND ">>
                \o NumbersColumn(left) \o <<IF inclusive THEN " <= " ELSE " < ", max>>)

\* rang
rang(left, right) ==
    LET inclusive == ~(right[1] = "(" /\ right[Len(right)] = ")")
        stripped == SubSeq(right, 2, Len(right) - 1)
        rangeSlice == Split(stripped, ",")
    IN  IF Len(rangeSlice) # 2
        THEN RenderError("the BETWEEN operator needs a two item list in the right hand side, have "
                            \o Str(right))
        ELSE LET rawMin == Trim(rangeSlice[1], " ")
                 rawMax == Trim(rangeSlice[2], " ")
                 ints == toInts(rawMin, rawMax)
                 floats == toFloats(rawMin, rawMax)
             IN  IF ints.ok
                 THEN Comparisons(left, rawMin, rawMax, inclusive, FmtD(ints.min), FmtD(ints.max))
                 ELSE IF floats.ok
                 THEN Comparisons(left, rawMin, rawMax, inclusive, FmtF2(floats.min.neg, floats.min.abs),
                                  FmtF2(floats.max.neg, floats.max.abs))
                 ELSE Text(<<"strings.value[indexOf(strings.name,">> \o left \o <<")] BETWEEN ">>
                            \o rawMin \o <<" AND ">> \o rawMax)

-----------------------------------------------------------------------------
(* The driver: its function table and the bottom-up walk.  An entry of a     *)
(* table names the render function and, for basicCompound and basicWrap,    *)
(* the operator it was built with.                                          *)

Fn(name, op) == [fn |-> name, op |-> op]

\* the shared default table
Shared ==
    ("LITERAL" :> Fn("literal", ""))
        @@ ("EQUALS" :> Fn("equals", ""))
        @@ ("LIKE" :> Fn("like", ""))
        @@ ("IN" :> Fn("inFn", ""))
        @@ ("LIST" :> Fn("list", ""))
        @@ ("RANGE" :> Fn("rang", ""))
        @@ ("AND" :> Fn("basicCompound", "AND"))
        @@ ("OR" :> Fn("basicCompound", "OR"))
        @@ ("NOT" :> Fn("basicWrap", "NOT"))
        @@ ("MUST" :> Fn("noop", ""))
        @@ ("MUSTNOT" :> Fn("basicWrap", "NOT"))

\* NewClickhouseDriver, with a function put in the overrides for BOOST
NewClickhouseDriverWithBoost ==
    LET fns == ("LITERAL" :> Fn("literal", "")) @@ ("BOOST" :> Fn("noop", ""))
    IN  [op \in DOMAIN fns \cup DOMAIN Shared |->
            IF op \in DOMAIN fns THEN fns[op] ELSE Shared[op]]

\* NewClickhouseDriver: the overrides, then every shared function not overridden
NewClickhouseDriver ==
    LET fns == ("LITERAL" :> Fn("literal", ""))
    IN  [op \in DOMAIN fns \cup DOMAIN Shared |->
            IF op \in DOMAIN fns THEN fns[op] ELSE Shared[op]]

\* the call of a registered RenderFN
Apply(entry, left, right) ==
    CASE entry.fn = "literal" -> literal(left, right)
      [] entry.fn = "equals" -> equals(left, right)
      [] entry.fn = "like" -> like(left, right)
      [] entry.fn = "inFn" -> inFn(left, right)
      [] entry.fn = "list" -> list(left, right)
      [] entry.fn = "rang" -> rang(left, right)
      [] entry.fn = "noop" -> noop(left, right)
      [] entry.fn = "basicCompound" -> basicCompound(entry.op, left, right)
      [] entry.fn = "basicWrap" -> basicWrap(entry.op, left, right)

\* the nodes of the tree that is rendered
NONE == [op |-> "none"]

StringValue(val) == [op |-> "string", val |-> val]

Node(op, left, right) == [op |-> op, left |-> left, right |-> right]

Lit(val) == Node("LITERAL", StringValue(val), NONE)

UnableToRender(op) == "unable to render operator [" \o op \o "]"

RECURSIVE EscapeQuotes(_)
\* a single quote of a string value is written twice
EscapeQuotes(val) ==
    IF val = <<>> THEN <<>>
    ELSE (IF Head(val) = "'" THEN <<"'", "'">> ELSE <<Head(val)>>) \o EscapeQuotes(Tail(val))

\* a string value as text: in single quotes
Quoted(val) == <<"'">> \o EscapeQuotes(val) \o <<"'">>

RECURSIVE Render(_), serialize(_, _)
\* Render: the children first, then the function registered for the operator
Render(e) ==
    LET left == serialize(e.left, e.op)
        right == serialize(e.right, e.op)
    IN  IF left.err # "" THEN left
        ELSE IF right.err # "" THEN right
        ELSE IF e.op \notin DOMAIN NewClickhouseDriver
        THEN RenderError(UnableToRender(e.op))
        ELSE Apply(NewClickhouseDriver[e.op], left.text, right.text)

\* serialize: a child of a node of operator parent to text
serialize(in, parent) ==
    CASE in.op = "none" -> Text(<<>>)
      [] in.op = "string" -> Text(Quoted(in.val))
      [] OTHER ->
            LET sub == Render(in)
            IN  IF sub.err = "" /\ parent \in {"AND", "OR"} /\ in.op # "LITERAL"
                THEN Text(<<"(">> \o sub.text \o <<")">>)
                ELSE sub

-----------------------------------------------------------------------------
(* The render functions on their inputs: a call writes what it returns to   *)
(* rout; the parser is idle.                                                *)

NotRendered == RenderError("not rendered")

IdleParser ==
    /\ lang = "render"
    /\ lexed = 0
    /\ lexEnded = FALSE
    /\ tokens = <<>>
    /\ tokIdx = -1
    /\ hasMust = FALSE
    /\ hasMustNot = FALSE
    /\ subExpressionCount = 0
    /\ minCount = 0
    /\ stack = <<>>
    /\ ret = Ok(NIL)
    /\ pc = "idle"
    /\ result = Ok(NIL)

RECURSIVE TextsOfLen(_, _)
TextsOfLen(chars, n) ==
    IF n = 0 THEN {<<>>} ELSE {<<c>> \o t : c \in chars, t \in TextsOfLen(chars, n - 1)}

\* the texts of 1..n characters
TextsUpTo(chars, n) == UNION {TextsOfLen(chars, k) : k \in 1..n}

\* the trees of the operators the parser builds around literals
MaxNodes == 4

UnaryOps == {"NOT", "MUST", "MUSTNOT", "BOOST", "FUZZY"}

BinaryOps == {"AND", "OR"}

Leaves == {Lit(<<"a">>), Lit(<<"a", NUL>>)}

RECURSIVE TreesOfSize(_)
TreesOfSize(n) ==
    IF n = 1 THEN Leaves
    ELSE {Node(op, x, NONE) : op \in UnaryOps, x \in TreesOfSize(n - 1)}
            \cup UNION {{Node(op, x, y) : op \in BinaryOps, x \in TreesOfSize(k),
                                            y \in TreesOfSize(n - 1 - k)} : k \in 1..(n - 2)}

Trees == UNION {TreesOfSize(n) : n \in 1..MaxNodes}

InitRender ==
    /\ IdleParser
    /\ rin \in {[fn |-> "Render", tree |-> t] : t \in Trees}
    /\ rout = NotRendered

CallRender ==
    /\ rin.fn = "Render"
    /\ rout = NotRendered
    /\ rout' = Render(rin.tree)
    /\ UNCHANGED <<parserVars, rin>>

NextRender == CallRender

SpecRender == InitRender /\ [][NextRender]_vars

\* equals on a quoted field and every right-hand text of at most MaxText characters
MaxText == 4

EqualsChars == {"0", "1", "-", "x", "t", "r", "u", "e", "'"}

EqualsFields == {Quoted(<<"a">>), Quoted(<<"_source">>)}

InitEquals ==
    /\ IdleParser
    /\ rin \in {[fn |-> "equals", left |-> l, right |-> r]
                    : l \in EqualsFields, r \in TextsUpTo(EqualsChars, MaxText)}
    /\ rout = NotRendered

CallEquals ==
    /\ rin.fn = "equals"
    /\ rout = NotRendered
    /\ rout' = equals(rin.left, rin.right)
    /\ UNCHANGED <<parserVars, rin>>

NextEquals == CallEquals

SpecEquals == InitEquals /\ [][NextEquals]_vars

\* rang on the rendered list of the two bounds of a range: integers, decimal
\* fractions, quoted strings and the quoted wildcard
MaxDigits == 2

MaxBody == 2

SignedTexts(texts) == texts \cup {<<"-">> \o t : t \in texts}

IntBounds == SignedTexts(TextsUpTo({"0", "1", "5"}, MaxDigits))

FloatBounds == {i \o <<".", d>> : i \in IntBounds, d \in {"5"}}

StringBounds == {Quoted(b) : b \in TextsUpTo({"f", "5", ","}, MaxBody)}

Bounds == IntBounds \cup FloatBounds \cup StringBounds \cup {Wildcard}

\* the list as the walk hands it to rang: [min, max] inclusive, (min, max) exclusive
RangeList(min, max, inclusive) ==
    <<IF inclusive THEN "[" ELSE "(">> \o min \o <<",", " ">> \o max
        \o <<IF inclusive THEN "]" ELSE ")">>

InitRang ==
    /\ IdleParser
    /\ rin \in {[fn |-> "rang", left |-> Quoted(<<"a">>), right |-> RangeList(min, max, inc),
                 min |-> min, max |-> max, inclusive |-> inc]
                    : min \in Bounds, max \in Bounds, inc \in BOOLEAN}
    /\ rout = NotRendered

CallRang ==
    /\ rin.fn = "rang"
    /\ rout = NotRendered
    /\ rout' = rang(rin.left, rin.right)
    /\ UNCHANGED <<parserVars, rin>>

NextRang == CallRang

SpecRang == InitRang /\ [][NextRang]_vars

-----------------------------------------------------------------------------
(* What the claims say of the render functions                             *)

Rendered == rout # NotRendered

RECURSIVE OpsOf(_)
\* the operators of the nodes of a tree
OpsOf(e) ==
    IF e.op \in {"none", "string"} THEN {} ELSE {e.op} \cup OpsOf(e.left) \cup OpsOf(e.right)

RECURSIVE ValuesOf(_)
\* the string values of the literals of a tree
ValuesOf(e) ==
    IF e.op = "none" THEN {}
    ELSE IF e.op = "string" THEN {e.val}
    ELSE ValuesOf(e.left) \cup ValuesOf(e.right)

ValidText(v) == \A i \in 1..Len(v) : v[i] \notin {NUL, BadUTF8}

Unsupported == {"BOOST", "FUZZY"}

DispatchedText(left, right) ==
    IF ParseIntOk(right)
    THEN "numbers.value[indexOf(numbers.name," \o Str(left) \o ")] = " \o Str(right)
    ELSE IF ParseBoolOk(right)
    THEN "bools.value[indexOf(bools.name," \o Str(left) \o ")] = " \o Str(right)
    ELSE "lowerUTF8(strings.value[indexOf(strings.name," \o Str(left)
            \o ")]) = lowerUTF8(" \o Str(right) \o ")"

IsNumericBound(b) == AtoiOk(b) \/ ParseFloatOk(b)

IsStringBound(b) == b \in StringBounds

\* a numeric bound as a comparison operand: %d if both bounds of the range are
\* integers (or the wildcard), %.2f otherwise
Operand(b, other) ==
    IF AtoiOk(b) /\ (AtoiOk(other) \/ other = Wildcard)
    THEN FmtD(Atoi(b))
    ELSE FmtF2(HasSign(b) /\ b[1] = "-",
               IF Hundredths(b) < 0 THEN 0 - Hundredths(b) ELSE Hundredths(b))

NumericColumn == "numbers.value[indexOf(numbers.name,'a')]"

\* the text the claim gives for a range
RangeText(min, max, inclusive) ==
    IF min = Wildcard
    THEN NumericColumn \o (IF inclusive THEN " <= " ELSE " < ") \o Operand(max, min)
    ELSE IF max = Wildcard
    THEN NumericColumn \o (IF inclusive THEN " >= " ELSE " > ") \o Operand(min, max)
    ELSE IF IsNumericBound(min)
    THEN NumericColumn \o (IF inclusive THEN " >= " ELSE " > ") \o Operand(min, max)
            \o " AND "
            \o NumericColumn \o (IF inclusive THEN " <= " ELSE " < ") \o Operand(max, min)
    ELSE "strings.value[indexOf(strings.name,'a')] BETWEEN " \o Str(min) \o " AND " \o Str(max)

\* the ranges the claim speaks of: one wildcard and one numeric bound, two
\* numeric bounds, two string bounds
ClaimedRange(min, max) ==
    \/ min = Wildcard /\ IsNumericBound(max)
    \/ max = Wildcard /\ IsNumericBound(min)
    \/ IsNumericBound(min) /\ IsNumericBound(max)
    \/ IsStringBound(min) /\ IsStringBound(max)

\* C10: a range with one wildcard and one numeric bound renders as one comparison
\* on the numeric arrays (<= or < without a minimum, >= or > without a maximum,
\* strict iff exclusive); with two numeric bounds as the AND of a lower and an
\* upper comparison of that strictness; with two string bounds always as
\* BETWEEN min AND max on the string arrays, inclusive or exclusive.
C10_RangeRendering ==
    (Rendered /\ ClaimedRange(rin.min, rin.max))
        => (rout.err = "" /\ Str(rout.text) = RangeText(rin.min, rin.max, rin.inclusive))

-----------------------------------------------------------------------------
(* like on a quoted field and the text of every string value of at most     *)
(* MaxPattern characters                                                    *)

MaxPattern == 4

PatternChars == {"/", "*", "?", "b", "'"}

InitLike ==
    /\ IdleParser
    /\ rin \in {[fn |-> "like", left |-> l, right |-> Quoted(v), value |-> v]
                    : l \in EqualsFields, v \in TextsUpTo(PatternChars, MaxPattern)}
    /\ rout = NotRendered

CallLike ==
    /\ rin.fn = "like"
    /\ rout = NotRendered
    /\ rout' = like(rin.left, rin.right)
    /\ UNCHANGED <<parserVars, rin>>

NextLike == CallLike

SpecLike == InitLike /\ [][NextLike]_vars

\* the value is a regular expression between two slashes
SlashDelimited(v) == Len(v) >= 2 /\ v[1] = "/" /\ v[Len(v)] = "/"

StringColumn(left) == "lowerUTF8(strings.value[indexOf(strings.name," \o Str(left) \o ")])"

\* the text the claim gives for a pattern match
PatternText(left, v) ==
    IF SlashDelimited(v)
    THEN "match(" \o StringColumn(left) \o ",lowerUTF8("
            \o Str(Quoted(SubSeq(v, 2, Len(v) - 1))) \o "))"
    ELSE StringColumn(left) \o " like lowerUTF8("
            \o Str(Quoted(ReplaceAllWith(ReplaceAllWith(v, "*", "%"), "?", "_"))) \o ")"

\* C11: a right-hand text that is slash-delimited inside its quotes renders as
\* match(lowerUTF8(<string column>),lowerUTF8('<regex>')) with only the two
\* delimiting slashes removed and * and ? untouched; any other text renders as
\* a like on the string column with every * replaced by % and every ? by _.
C11_PatternMatchRendering ==
    Rendered => (rout.err = "" /\ Str(rout.text) = PatternText(rin.left, rin.value))

-----------------------------------------------------------------------------
(* What the claims say of the regular expressions                          *)

\* the text of a /.../ token between its two delimiters
RegexpBody(t) == SubSeq(t.val, 2, Len(t.val) - 1)

\* C12: a /.../ token becomes a RegexpLiteral whose value is the token's text
\* without its opening and its closing slash; the slashes inside the body
\* (escaped delimiters) stay in the literal, alone or as the value of a field.
C12_RegexpKeepsInnerSlashes ==
    /\ (Done /\ Len(Input) = 1 /\ Input[1].typ = "tREGEXP")
            => result = Ok(RegexpLit(RegexpBody(Input[1])))
    /\ (Done /\ Len(Input) = 3 /\ Input[1] = L("a") /\ Input[2] = COLON
             /\ Input[3].typ = "tREGEXP")
            => result = Ok(MkEquals(<<"a">>, RegexpLit(RegexpBody(Input[3])), FALSE, FALSE))

-----------------------------------------------------------------------------
(* inFn on a quoted field and the list of at most MaxElems rendered values  *)

MaxElems == 3

ElementTexts == {<<"1">>, <<"5">>, <<"-", "1">>, Quoted(<<"f">>), Quoted(<<"5">>)}

ElementLists == UNION {[1..n -> ElementTexts] : n \in 1..MaxElems}

RECURSIVE JoinTexts(_)
\* the elements of a value list, separated by ", "
JoinTexts(elems) ==
    IF Len(elems) = 1 THEN elems[1] ELSE elems[1] \o <<",", " ">> \o JoinTexts(Tail(elems))

InitIn ==
    /\ IdleParser
    /\ rin \in {[fn |-> "inFn", left |-> Quoted(<<"a">>), elems |-> es] : es \in ElementLists}
    /\ rout = NotRendered

\* the list node is rendered by list, and its text is the right side of inFn
CallIn ==
    /\ rin.fn = "inFn"
    /\ rout = NotRendered
    /\ rout' = inFn(rin.left, list(JoinTexts(rin.elems), <<>>).text)
    /\ UNCHANGED <<parserVars, rin>>

NextIn == CallIn

SpecIn == InitIn /\ [][NextIn]_vars

\* the column the dispatch of equality picks for a value
DispatchedColumn(left, v) ==
    IF ParseIntOk(v) THEN "numbers.value[indexOf(numbers.name," \o Str(left) \o ")]"
    ELSE IF ParseBoolOk(v) THEN "bools.value[indexOf(bools.name," \o Str(left) \o ")]"
    ELSE "strings.value[indexOf(strings.name," \o Str(left) \o ")]"

\* C13: a value list renders as <column> IN (x, y, z), the elements in query
\* order, and the column is the one the integer / boolean / string dispatch
\* gives for the first element: the numeric arrays for a list of integers, the
\* string arrays for a list of strings.
C13_ListDispatchOnFirstElement ==
    Rendered
        => /\ rout.err = ""
           /\ Str(rout.text) = DispatchedColumn(rin.left, rin.elems[1])
                                    \o " IN (" \o Str(JoinTexts(rin.elems)) \o ")"

-----------------------------------------------------------------------------
(* The comparisons on the reserved field: equals and like on '_source' and  *)
(* the text of every value of at most MaxValue characters, bare or quoted   *)

MaxValue == 2

SourceValues ==
    TextsUpTo(EqualsChars, MaxValue) \cup {Quoted(v) : v \in TextsUpTo(PatternChars, MaxValue)}

InitSource ==
    /\ IdleParser
    /\ rin \in {[fn |-> f, left |-> Quoted(<<"_source">>), right |-> r]
                    : f \in {"equals", "like"}, r \in SourceValues}
    /\ rout = NotRendered

NextSource == CallEquals \/ CallLike

SpecSource == InitSource /\ [][NextSource]_vars

IndexedLookups ==
    {"numbers.value[indexOf(numbers.name,", "bools.value[indexOf(bools.name,",
     "strings.value[indexOf(strings.name,", "lowerUTF8(strings.value[indexOf(strings.name,",
     "match(lowerUTF8(strings.value[indexOf(strings.name,"}

\* C14: a comparison on the reserved field _source renders as the whole-row
\* call match(lowerUTF8(_source), lowerUTF8(<value>)) and never as an indexed
\* lookup, whatever the value and whether equals or like renders it.
C14_SourceIsWholeRowMatch ==
    Rendered
        => /\ rout.err = ""
           /\ rout.text[1] = "match(lowerUTF8(_source), lowerUTF8("
           /\ rout.text[Len(rout.text)] = "))"
           /\ \A i \in 1..Len(rout.text) : rout.text[i] \notin IndexedLookups

-----------------------------------------------------------------------------
(* What the claims say of the tree Parse returns                           *)

RECURSIVE WellFormed(_)
\* the structural invariants, at every node of the tree
WellFormed(e) ==
    CASE e.typ = "Equals" -> e.term # <<>> /\ e.value # NIL /\ WellFormed(e.value)
      [] e.typ \in {"And", "Or"} ->
            e.left # NIL /\ e.right # NIL /\ WellFormed(e.left) /\ WellFormed(e.right)
      [] e.typ \in {"Not", "Boost", "Fuzzy"} -> e.expr # NIL /\ WellFormed(e.expr)
      [] e.typ \in {"Must", "MustNot"} ->
            e.expr # NIL /\ e.expr.typ \notin {"Must", "MustNot"} /\ WellFormed(e.expr)
      [] e.typ = "Range" -> e.Min # NIL /\ e.Max # NIL
      [] e.typ \in LiteralTypes -> TRUE
      [] OTHER -> FALSE

\* a tree returned with a nil error is non-nil and well formed
ResultWellFormed == Succeeded => (result.e # NIL /\ WellFormed(result.e))

\* the query has a group with nothing in it
HasEmptyGroup(s) == \E i \in 1..(Len(s) - 1) : s[i] = LPAREN /\ s[i + 1] = RPAREN

\* C15: a tree returned with a nil error is non-nil and satisfies the structural
\* invariants at every node; the empty query and the queries with a balanced
\* but empty group, such as (), a:() and a AND (), are rejected.
C15_ResultWellFormedEmptyRejected ==
    /\ ResultWellFormed
    /\ (Done /\ (Input = <<>> \/ HasEmptyGroup(Input))) => result.err # ""

-----------------------------------------------------------------------------
(* What the claims say of the queries Parse rejects                        *)

\* the lexer has reached the end of the query
Ended == tokens # <<>> /\ IsEOF(tokens[Len(tokens)])

\* nothing follows token i of the query
LastToken(s, i) == i = Len(s) /\ Ended

\* a : or = with no expression before it
BareSeparator(s) ==
    \E i \in 1..Len(s) :
        /\ s[i].typ \in {"tCOLON", "tEQUAL"}
        /\ i = 1 \/ s[i - 1].typ \in {"tLPAREN", "tAND", "tOR", "tNOT"}

\* an AND or OR with no right operand
NoRightOperand(s) ==
    \E i \in 1..Len(s) :
        /\ s[i].typ \in {"tAND", "tOR"}
        /\ LastToken(s, i) \/ (i < Len(s) /\ s[i + 1].typ = "tRPAREN")

\* a TO that does not directly follow a literal lower bound
ToWithoutLowerBound(s) ==
    \E i \in 1..Len(s) :
        /\ s[i].typ = "tTO"
        /\ i = 1 \/ s[i - 1].typ \notin {"tLITERAL", "tQUOTED"}

\* a range with no upper bound
NoUpperBound(s) ==
    \E i \in 1..Len(s) :
        /\ s[i].typ = "tTO"
        /\ LastToken(s, i) \/ (i < Len(s) /\ s[i + 1].typ \in {"tRSQUARE", "tRCURLY"})

\* brackets that do not enclose a TO range
BracketsWithoutTo(s) ==
    \E i \in 1..Len(s) : \E j \in (i + 1)..Len(s) :
        /\ s[i].typ \in {"tLSQUARE", "tLCURLY"}
        /\ s[j].typ \in {"tRSQUARE", "tRCURLY"}
        /\ \A k \in (i + 1)..(j - 1) : s[k].typ \notin {"tTO", "tRSQUARE", "tRCURLY"}

PositiveNumber(val) == ParseFloatOk(val) /\ Hundredths(val) > 0

\* a ^ or ~ followed by a literal that is not a positive number
SuffixWithoutPositive(s) ==
    \E i \in 1..(Len(s) - 1) :
        /\ s[i].typ \in {"tCARROT", "tTILDE"}
        /\ s[i + 1].typ = "tLITERAL"
        /\ ~PositiveNumber(s[i + 1].val)

Malformed(s) ==
    \/ BareSeparator(s) \/ NoRightOperand(s) \/ ToWithoutLowerBound(s)
    \/ NoUpperBound(s) \/ BracketsWithoutTo(s) \/ SuffixWithoutPositive(s)

\* C16: Parse returns an error for a : or = with no expression before it, an
\* AND or OR with no right operand, a TO that does not follow a literal lower
\* bound, a range with no upper bound, brackets that do not enclose a TO range,
\* and a ^ or ~ followed by a literal that is not a positive number.
C16_MalformedRejected == (Done /\ Malformed(Input)) => result.err # ""

-----------------------------------------------------------------------------
(* parseLiteral on its own: one bareword token is classified                *)

MaxWord == 3

WordChars == {"5", "0", "1", "-", "+", "*", "?", "a", "."}

\* tokens just outside the range of an int
TooLarge == {SubSeq(MaxInt64, 1, 18) \o <<"8">>, <<"-">> \o SubSeq(MaxInt64, 1, 18) \o <<"9">>}

Words == (TextsUpTo(WordChars, MaxWord) \ {<<>>}) \cup TooLarge

NotClassified == [typ |-> "none"]

InitLiteral ==
    /\ IdleParser
    /\ rin \in {[fn |-> "parseLiteral", val |-> w] : w \in Words}
    /\ rout = NotClassified

CallParseLiteral ==
    /\ rin.fn = "parseLiteral"
    /\ rout = NotClassified
    /\ rout' = parseLiteral(rin.val)
    /\ UNCHANGED <<parserVars, rin>>

NextLiteral == CallParseLiteral

SpecLiteral == InitLiteral /\ [][NextLiteral]_vars

Classified == rin.fn = "parseLiteral" /\ rout # NotClassified

IsIntLiteral(e) == e.typ = "Literal" /\ e.kind = "int"

OnlyDigits(w) == \A i \in 1..Len(w) : w[i] \in Digits

\* C17: a token made only of digits becomes an integer literal, otherwise a
\* token with * or ? becomes a wildcard literal, every other token a string
\* literal; no token with a non-digit character becomes an integer literal.
C17_DigitsOnlyInteger ==
    Classified =>
        /\ IF OnlyDigits(rin.val) THEN IsIntLiteral(rout)
           ELSE IF ContainsAny(rin.val, {"*", "?"}) THEN rout = WildLit(rin.val)
           ELSE rout = StrLit(rin.val)
        /\ ~OnlyDigits(rin.val) => ~IsIntLiteral(rout)

\* an optional sign, then digits only
SignedDigits(w) ==
    \E k \in {0, 1} :
        /\ k = 1 => w[1] \in {"+", "-"}
        /\ Len(w) > k
        /\ OnlyDigits(SubSeq(w, k + 1, Len(w)))

\* the integer n is the number the token w writes (sign, digits, any leading zeros)
Denotes(w, n) ==
    LET d == StripZeros(IF w[1] \in {"+", "-"} THEN Tail(w) ELSE w)
    IN  /\ NatText(IF n < 0 THEN 0 - n ELSE n) = Str(d)
        /\ n < 0 => w[1] = "-"
        /\ n > 0 => w[1] # "-"

\* C17 (as amended): a token that is an optional sign followed by digits, of a
\* value in the range of an int, becomes the integer literal of that value;
\* otherwise a token with * or ? becomes a wildcard literal holding the token,
\* and every other token a string literal holding the token.
C17_SignedDigitsInteger ==
    Classified =>
        IF SignedDigits(rin.val) /\ FitsInt64(rin.val)
        THEN IsIntLiteral(rout) /\ Denotes(rin.val, rout.num)
        ELSE IF ContainsAny(rin.val, {"*", "?"}) THEN rout = WildLit(rin.val)
        ELSE rout = StrLit(rin.val)

\* a signed number has been classified
C17_Witness == Classified /\ rin.val = <<"-", "5">> /\ rout = IntLit(0 - 5)

-----------------------------------------------------------------------------
(* What the claims say of insert: nothing of the query is lost             *)

IsLiteralToken(t) == t.typ = "tLITERAL"

RECURSIVE LiteralCount(_)
\* the number of literals (terms and values) a tree holds
LiteralCount(e) ==
    CASE e.typ = "Equals" -> (IF e.term = <<>> THEN 0 ELSE 1) + LiteralCount(e.value)
      [] e.typ \in {"And", "Or"} -> LiteralCount(e.left) + LiteralCount(e.right)
      [] e.typ \in {"Not", "Must", "MustNot", "Boost", "Fuzzy"} -> LiteralCount(e.expr)
      [] e.typ = "Range" -> LiteralCount(e.Min) + LiteralCount(e.Max)
      [] e.typ \in LiteralTypes -> 1
      [] OTHER -> 0

\* C18: an insert fills an empty slot or returns a new And of the node and the
\* inserted expression, none overwrites a filled slot and the parser keeps
\* every insert result; so every clause of a successfully parsed query, here
\* every literal of it, is in the returned tree.
C18_EveryClauseInTree ==
    Succeeded => LiteralCount(result.e) = Len(SelectSeq(Input, IsLiteralToken))

-----------------------------------------------------------------------------
(* The token cursor on its own: any sequence of next() and backup() calls   *)

MaxCalls == 6

\* one call in the log: the cursor and the buffer length it found, the token
\* returned (by next) and whether the lexer was asked for a token
CursorCall(op, tok, lexer) ==
    [op |-> op, tok |-> tok, at |-> tokIdx, buffered |-> Len(tokens), lexer |-> lexer]

InitCursor ==
    /\ lang = "cursor"
    /\ lexed = 0
    /\ lexEnded = FALSE
    /\ tokens = <<>>
    /\ tokIdx = -1
    /\ hasMust = FALSE
    /\ hasMustNot = FALSE
    /\ subExpressionCount = 0
    /\ minCount = 0
    /\ stack = <<>>
    /\ ret = Ok(NIL)
    /\ pc = "idle"
    /\ result = Ok(NIL)
    /\ rin = [fn |-> "cursor"]
    /\ rout = <<>>

CursorRest == UNCHANGED <<lang, hasMust, hasMustNot, subExpressionCount, minCount, stack, ret, pc, result, rin>>

CallNext ==
    /\ lang = "cursor"
    /\ Len(rout) < MaxCalls
    /\ \E r \in next(tokens, tokIdx, lexed, lexEnded) :
        /\ tokens' = r.tokens
        /\ tokIdx' = r.tokIdx
        /\ lexed' = r.lexed
        /\ lexEnded' = r.lexEnded
        /\ rout' = Append(rout, CursorCall("next", r.tok, Len(r.tokens) > Len(tokens)))
    /\ CursorRest

CallBackup ==
    /\ lang = "cursor"
    /\ Len(rout) < MaxCalls
    /\ tokIdx' = backup(tokIdx)
    /\ rout' = Append(rout, CursorCall("backup", EOF, FALSE))
    /\ UNCHANGED <<tokens, lexed, lexEnded>>
    /\ CursorRest

NextCursor == CallNext \/ CallBackup

SpecCursor == InitCursor /\ [][NextCursor]_vars

CursorRun == lang = "cursor"

\* the cursor stays within the buffer
CursorInBounds == tokIdx >= -1 /\ tokIdx <= Len(tokens) - 1

\* the lexer is asked only with the cursor on the last buffered token: once for
\* each position, never for a position already seen
LexerOnlyAtEnd ==
    /\ \A i \in 1..Len(rout) : rout[i].lexer => rout[i].at = rout[i].buffered - 1
    /\ \A i \in 1..Len(rout) : \A j \in (i + 1)..Len(rout) :
            (rout[i].lexer /\ rout[j].lexer) => rout[i].at # rout[j].at
    /\ \A i \in 1..Len(rout) : rout[i].op = "next" /\ ~rout[i].lexer => rout[i].at < rout[i].buffered - 1

\* call i is a next() and call j the next() before it
PreviousNext(j, i) ==
    /\ j < i
    /\ rout[j].op = "next"
    /\ \A k \in (j + 1)..(i - 1) : rout[k].op = "backup"

\* C19: for every sequence of next() and backup() calls the cursor stays within
\* -1 <= tokIdx <= len(tokens)-1, nextToken is called only with the cursor on
\* the last buffered token, and a next() that follows a backup() returns the
\* token the previous next() returned.
C19_NextAfterBackupRepeats ==
    CursorRun =>
        /\ CursorInBounds
        /\ LexerOnlyAtEnd
        /\ \A i \in 2..Len(rout) : \A j \in 1..(i - 1) :
                (rout[i].op = "next" /\ rout[i - 1].op = "backup" /\ PreviousNext(j, i))
                    => rout[i].tok = rout[j].tok

\* C19 (as amended): the same, for a next() that follows a single backup(), one
\* that itself directly follows a next(); it does not ask the lexer again.
C19_NextAfterOneBackupRepeats ==
    CursorRun =>
        /\ CursorInBounds
        /\ LexerOnlyAtEnd
        /\ \A i \in 3..Len(rout) :
                (rout[i].op = "next" /\ rout[i - 1].op = "backup" /\ rout[i - 2].op = "next")
                    => (rout[i].tok = rout[i - 2].tok /\ ~rout[i].lexer)

\* two tokens read, one backup, the second token read again; and a backup at
\* the start of the buffer has left the cursor at -1
C19_Witness ==
    /\ CursorRun
    /\ Len(rout) = 6
    /\ rout[1].op = "backup" /\ rout[2].op = "next" /\ rout[3].op = "next"
    /\ rout[4].op = "backup" /\ rout[5].op = "next" /\ rout[6].op = "next"
    /\ rout[2].tok = L("a") /\ rout[3].tok = L("b") /\ rout[5].tok = L("b")
    /\ rout[6].lexer

-----------------------------------------------------------------------------
(* Termination of Parse                                                     *)

InitTerm == InitParser("term")

NextTerm ==
    \/ StepEOF \/ StepCannotAccept \/ ReturnInsert \/ StepLITERAL \/ StepEQUAL
    \/ StepNOT \/ ReturnNOT \/ StepAND \/ ReturnAND
    \/ StepLPAREN \/ ReturnLPAREN \/ StepRPAREN \/ StepTILDE \/ ParseReturns

\* the code runs on until Parse returns
SpecTerm == InitTerm /\ [][NextTerm]_vars /\ WF_vars(NextTerm)

\* a step that calls parser.parse has read a token, or is the call made after
\* backup() by a call that has an expression already
CallConsumes ==
    Len(stack') > Len(stack) =>
        \/ tokIdx' > tokIdx
        \/ tokIdx' = tokIdx /\ Top.e # NIL

\* an iteration of the loop moves the cursor forward, except the one that
\* backs up and calls parser.parse
IterationConsumes ==
    Looping => (tokIdx' > tokIdx \/ (tokIdx' = tokIdx /\ Len(stack') > Len(stack)))

\* the depth of the recursion is bounded by the number of tokens read
DepthBounded == Len(stack) <= tokIdx + 2 /\ tokIdx <= Len(tokens) - 1

\* C20: Parse terminates on every finite token stream that ends with an end
\* token: each call of parser.parse, the one made after backup() included,
\* consumes a token before it calls parser.parse again, so the depth of the
\* recursion and the number of loop iterations are bounded by the number of
\* tokens.
C20_ParseTerminates ==
    /\ [][CallConsumes /\ IterationConsumes]_vars
    /\ []DepthBounded
    /\ <>Done

\* a query whose last clause is parsed by the call made after backup()
C20_Witness == Succeeded /\ Input = <<L("a"), COLON, L("a"), L("a"), TILDE>>

-----------------------------------------------------------------------------
(* What the claims say of the numbers in a rendered range                   *)

ComparisonOperators == {" <= ", " < ", " >= ", " > "}

\* the ways the number of a numeric bound is written: %d for an integer, %.2f
\* for any number; none for a string bound or the wildcard
Written(b) ==
    (IF AtoiOk(b) THEN {FmtD(Atoi(b))} ELSE {})
        \cup (IF ParseFloatOk(b)
              THEN {FmtF2(HasSign(b) /\ b[1] = "-",
                          IF Hundredths(b) < 0 THEN 0 - Hundredths(b) ELSE Hundredths(b))}
              ELSE {})

\* the comparison operands of a rendered text: the pieces right after an operator
ComparisonOperands(text) ==
    {text[i + 1] : i \in {j \in 1..(Len(text) - 1) : text[j] \in ComparisonOperators}}

\* C21: every number that is a comparison operand in what the range renderer
\* returns is one of the two bounds of the range; a range with the wildcard on
\* both sides is never rendered as a comparison against a number the query
\* does not contain.
C21_OperandsAreBounds ==
    (Rendered /\ rin.fn = "rang" /\ rout.err = "")
        => ComparisonOperands(rout.text) \subseteq (Written(rin.min) \cup Written(rin.max))

====
